---- MODULE Spec2Model ----
(***************************************************************************)
(* Model of reenc-image (src/src/main.rs): main's batch loop over the      *)
(* input paths, and re_convert_image step by step (open, size check,       *)
(* decode, the strategy loop, output path derivation, exclusive create,    *)
(* write_all), over a small filesystem.                                    *)
(*                                                                         *)
(* The image codec is an external library.  Its results are a              *)
(* nondeterministic but pure function of the decoded bytes: the function   *)
(* is revealed lazily in the variable codec, one entry per (bytes,         *)
(* operation) on first use, and reused afterwards.                         *)
(***************************************************************************)
EXTENDS Integers, Sequences, FiniteSets, TLC

\* Largest file size and largest encoded length, in (scaled) bytes.
MaxLen == 2
\* Largest number of input paths on the command line.
MaxImages == 2

----------------------------------------------------------------------------
(* Paths: a directory and a file name; a file name is a sequence of chars. *)

Path(d, n) == [dir |-> d, name |-> n]
NoPath == Path("", <<>>)

RECONV == <<"-", "r", "e", "c", "o", "n", "v">>
PNG_EXT == <<".", "p", "n", "g">>
JPG_EXT == <<".", "j", "p", "g">>

\* std::path::Path::file_stem on a file name: the part before the last '.',
\* the whole name when there is no '.' or the only '.' leads the name.
LastDot(name) ==
    LET S == {i \in 1..Len(name) : name[i] = "."}
    IN  IF S = {} THEN 0 ELSE CHOOSE i \in S : \A j \in S : j <= i

file_stem_first_dot(name) ==
    LET S == {i \in 1..Len(name) : name[i] = "."}
        d == IF S = {} THEN 0 ELSE CHOOSE i \in S : \A j \in S : i <= j
    IN  IF d <= 1 THEN name ELSE SubSeq(name, 1, d - 1)

file_stem(name) ==
    LET d == LastDot(name)
    IN  IF d <= 1 THEN name ELSE SubSeq(name, 1, d - 1)

\* Path::with_file_name: same parent directory, the file name replaced.
with_file_name(p, n) == Path(p.dir, n)

\* Lines 93-99: stem, then "-reconv", then the strategy's extension.
new_path_of(p, extension) ==
    with_file_name(p, file_stem(p.name) \o RECONV \o extension)

----------------------------------------------------------------------------
(* The strategy catalog.                                                   *)

CONVERSION_STRATEGIES_lossy_first ==
    <<"convert_to_jpeg_100", "convert_to_png", "convert_to_jpeg_90">>

CONVERSION_STRATEGIES ==
    <<"convert_to_png", "convert_to_jpeg_100", "convert_to_jpeg_90">>

NStrategies == Len(CONVERSION_STRATEGIES)

\* The extension each conversion function returns with its bytes.
ExtensionOf(s) == IF s = "convert_to_png" THEN PNG_EXT ELSE JPG_EXT

\* The bytes an encoder emits are marked by their format; an input file's
\* bytes are marked "o".
MarkOf(s) == IF s = "convert_to_png" THEN "p" ELSE "j"

Bytes(b, n) == [i \in 1..n |-> b]

\* What a codec call can answer: failure, or success with a length.
\* An encoder always emits at least a header, so lengths start at 1.
CodecErr == [ok |-> FALSE, n |-> 0]
DecodeResults == {CodecErr, [ok |-> TRUE, n |-> 0]}
EncodeResults == {CodecErr} \cup {[ok |-> TRUE, n |-> n] : n \in 1..MaxLen}

----------------------------------------------------------------------------
(* Outcomes of re_convert_image.                                           *)

Converted(osz, nsz, np) ==
    [kind |-> "Converted", original_size |-> osz, new_size |-> nsz,
     new_path |-> np, err |-> ""]
Skipped(osz) ==
    [kind |-> "Skipped", original_size |-> osz, new_size |-> 0,
     new_path |-> NoPath, err |-> ""]
Err(e) ==
    [kind |-> "Err", original_size |-> 0, new_size |-> 0,
     new_path |-> NoPath, err |-> e]
NoResult ==
    [kind |-> "None", original_size |-> 0, new_size |-> 0,
     new_path |-> NoPath, err |-> ""]

----------------------------------------------------------------------------
(* The inputs.                                                             *)

P1 == Path("d1", <<"a", ".", "b", ".", "p", "n", "g">>)
P2 == Path("d1", <<"a", ".", "b", ".", "j", "p", "g">>)
P3 == Path("d2", <<"c">>)
InputPaths == {P1, P2, P3}

\* Output paths that may already exist before the run (none, or one of the
\* two), and a file no call is concerned with.
Out1Png == Path("d1", <<"a", ".", "b">> \o RECONV \o PNG_EXT)
Out1Jpg == Path("d1", <<"a", ".", "b">> \o RECONV \o JPG_EXT)
PreExisting == {{}, {Out1Png}, {Out1Jpg}}
Bystander == Path("d2", <<"z">>)

Range(s) == {s[i] : i \in 1..Len(s)}

\* The command lines.  Every batch starts with P1: a call on P1 whose file
\* is missing changes nothing, so the calls on P2 and P3 that follow it
\* cover the batches that start with them.
Batches ==
    {b \in UNION {[1..n -> InputPaths] : n \in 1..MaxImages} : b[1] = P1}

VARIABLES
    images,         \* App.images: the input paths, in command-line order
    target_size,    \* App.target_size
    fs,             \* the filesystem: existing path -> bytes
    codec,          \* the codec's answers revealed so far
    stdin,          \* "none", "byte" or "eof"
    pc,             \* position in main / re_convert_image
    idx,            \* index of the image the for loop of main is at
    original_size,  \* locals of re_convert_image
    image,
    k,
    converted_data,
    new_path,
    result,         \* what re_convert_image returned
    reports,        \* one line printed per image, see Line
    log,            \* history: the steps of the current call
    fs_pre          \* history: the filesystem when the current call began

vars == <<images, target_size, fs, codec, stdin, pc, idx, original_size,
          image, k, converted_data, new_path, result, reports, log, fs_pre>>

image_path == images[idx]

Ev(e, s, ok, n) == [ev |-> e, s |-> s, ok |-> ok, n |-> n]

Init ==
    /\ images \in Batches
    /\ target_size \in 0..(MaxLen + 1)
    /\ \E present \in SUBSET Range(images), pre \in PreExisting :
         \E sizes \in [present -> 0..MaxLen] :
            fs = [p \in present \cup pre \cup {Bystander} |->
                    IF p \in present THEN Bytes("o", sizes[p]) ELSE <<"o">>]
    /\ codec = << >>
    /\ stdin = "none"
    /\ pc = "open"
    /\ idx = 1
    /\ original_size = 0
    /\ image = <<>>
    /\ k = 0
    /\ converted_data = <<>>
    /\ new_path = NoPath
    /\ result = NoResult
    /\ reports = <<>>
    /\ log = <<>>
    /\ fs_pre = fs

locals == <<original_size, image, k, converted_data, new_path>>
frame == <<images, target_size, stdin, idx, reports, fs_pre>>

\* return: control goes back to main with the outcome.
Return(r) ==
    /\ result' = r
    /\ pc' = "report"

----------------------------------------------------------------------------
(* Lines 76-77: File::open and metadata().len().                           *)
OpenFile ==
    /\ pc = "open"
    /\ log' = Append(log, Ev("open", "", image_path \in DOMAIN fs, 0))
    /\ IF image_path \in DOMAIN fs
       THEN /\ original_size' = Len(fs[image_path])
            /\ pc' = "size_check"
            /\ UNCHANGED result
       ELSE /\ Return(Err("Io"))
            /\ UNCHANGED original_size
    /\ UNCHANGED <<fs, codec, image, k, converted_data, new_path>>
    /\ UNCHANGED frame

(* Lines 79-81: already smaller than the target.                           *)
SizeCheck_reversed ==
    /\ pc = "size_check"
    /\ log' = Append(log, Ev("size_check", "", original_size > target_size, 0))
    /\ IF original_size > target_size
       THEN Return(Skipped(original_size))
       ELSE pc' = "decode" /\ UNCHANGED result
    /\ UNCHANGED <<fs, codec>>
    /\ UNCHANGED locals
    /\ UNCHANGED frame

SizeCheck_le ==
    /\ pc = "size_check"
    /\ log' = Append(log, Ev("size_check", "", original_size <= target_size, 0))
    /\ IF original_size <= target_size
       THEN Return(Skipped(original_size))
       ELSE pc' = "decode" /\ UNCHANGED result
    /\ UNCHANGED <<fs, codec>>
    /\ UNCHANGED locals
    /\ UNCHANGED frame

SizeCheck ==
    /\ pc = "size_check"
    /\ log' = Append(log, Ev("size_check", "", original_size < target_size, 0))
    /\ IF original_size < target_size
       THEN Return(Skipped(original_size))
       ELSE pc' = "decode" /\ UNCHANGED result
    /\ UNCHANGED <<fs, codec>>
    /\ UNCHANGED locals
    /\ UNCHANGED frame

\* A codec call on bytes b: the recorded answer if there is one, else any
\* answer of rs, recorded.
Ask_impure(b, op, rs, r) ==
    LET key == <<b, op>>
    IN  /\ r \in rs
        /\ codec' = IF key \in DOMAIN codec THEN codec ELSE codec @@ (key :> r)

Ask(b, op, rs, r) ==
    LET key == <<b, op>>
    IN  /\ r \in rs
        /\ key \in DOMAIN codec => r = codec[key]
        /\ codec' = IF key \in DOMAIN codec THEN codec ELSE codec @@ (key :> r)

(* Lines 83-85: guess the format from the content and decode.  Empty       *)
(* content has no format to guess.  On success the for loop of line 87     *)
(* starts at the first strategy.                                           *)
Decode_error_swallowed ==
    /\ pc = "decode"
    /\ \E r \in DecodeResults :
         /\ Ask(fs[image_path], "decode",
                IF fs[image_path] = <<>> THEN {CodecErr} ELSE DecodeResults, r)
         /\ log' = Append(log, Ev("decode", "", r.ok, 0))
         /\ IF r.ok
            THEN /\ image' = fs[image_path]
                 /\ k' = 1
                 /\ pc' = "encode"
                 /\ UNCHANGED result
            ELSE /\ Return(Skipped(original_size))
                 /\ UNCHANGED <<image, k>>
    /\ UNCHANGED <<fs, original_size, converted_data, new_path>>
    /\ UNCHANGED frame

Decode ==
    /\ pc = "decode"
    /\ \E r \in DecodeResults :
         /\ Ask(fs[image_path], "decode",
                IF fs[image_path] = <<>> THEN {CodecErr} ELSE DecodeResults, r)
         /\ log' = Append(log, Ev("decode", "", r.ok, 0))
         /\ IF r.ok
            THEN /\ image' = fs[image_path]
                 /\ k' = 1
                 /\ pc' = "encode"
                 /\ UNCHANGED result
            ELSE /\ Return(Err("Image"))
                 /\ UNCHANGED <<image, k>>
    /\ UNCHANGED <<fs, original_size, converted_data, new_path>>
    /\ UNCHANGED frame

\* Line 87 and line 110: the for loop goes on with the next strategy, or
\* the catalog is exhausted and the call fails.
NextStrategy_silent_skip ==
    IF k < NStrategies
    THEN /\ k' = k + 1
         /\ pc' = "encode"
         /\ UNCHANGED <<result, log>>
    ELSE /\ Return(Skipped(original_size))
         /\ log' = Append(log, Ev("exhausted", "", FALSE, 0))
         /\ UNCHANGED k

NextStrategy ==
    IF k < NStrategies
    THEN /\ k' = k + 1
         /\ pc' = "encode"
         /\ UNCHANGED <<result, log>>
    ELSE /\ Return(Err("ImageSizeExceedsTarget"))
         /\ log' = Append(log, Ev("exhausted", "", FALSE, 0))
         /\ UNCHANGED k

(* Line 88 (and 115-120): strategy(&image)?                                *)
Encode_soft_failure ==
    /\ pc = "encode"
    /\ \E r \in EncodeResults :
         /\ Ask(image, CONVERSION_STRATEGIES[k], EncodeResults, r)
         /\ log' = Append(log, Ev("encode", CONVERSION_STRATEGIES[k], r.ok, r.n))
         /\ IF r.ok
            THEN /\ converted_data' = Bytes(MarkOf(CONVERSION_STRATEGIES[k]), r.n)
                 /\ pc' = "check_len"
                 /\ UNCHANGED <<result, k>>
            ELSE /\ IF k < NStrategies
                    THEN k' = k + 1 /\ pc' = "encode" /\ UNCHANGED result
                    ELSE Return(Err("ImageSizeExceedsTarget")) /\ UNCHANGED k
                 /\ UNCHANGED converted_data
    /\ UNCHANGED <<fs, original_size, image, new_path>>
    /\ UNCHANGED frame

Encode ==
    /\ pc = "encode"
    /\ \E r \in EncodeResults :
         /\ Ask(image, CONVERSION_STRATEGIES[k], EncodeResults, r)
         /\ log' = Append(log, Ev("encode", CONVERSION_STRATEGIES[k], r.ok, r.n))
         /\ IF r.ok
            THEN /\ converted_data' = Bytes(MarkOf(CONVERSION_STRATEGIES[k]), r.n)
                 /\ pc' = "check_len"
                 /\ UNCHANGED result
            ELSE /\ Return(Err("Image"))
                 /\ UNCHANGED converted_data
    /\ UNCHANGED <<fs, original_size, image, k, new_path>>
    /\ UNCHANGED frame

(* Lines 89-99: still too large, continue with the next strategy; else     *)
(* derive the output path.                                                 *)
CheckLen_accepts_equal ==
    /\ pc = "check_len"
    /\ IF Len(converted_data) > target_size
       THEN NextStrategy /\ UNCHANGED new_path
       ELSE /\ new_path' =
                 new_path_of(image_path, ExtensionOf(CONVERSION_STRATEGIES[k]))
            /\ pc' = "create"
            /\ UNCHANGED <<k, result, log>>
    /\ UNCHANGED <<fs, codec, original_size, image, converted_data>>
    /\ UNCHANGED frame

CheckLen ==
    /\ pc = "check_len"
    /\ IF Len(converted_data) >= target_size
       THEN NextStrategy /\ UNCHANGED new_path
       ELSE /\ new_path' =
                 new_path_of(image_path, ExtensionOf(CONVERSION_STRATEGIES[k]))
            /\ pc' = "create"
            /\ UNCHANGED <<k, result, log>>
    /\ UNCHANGED <<fs, codec, original_size, image, converted_data>>
    /\ UNCHANGED frame

(* Line 101, File::create_new: fails if the path exists, else creates an   *)
(* empty file.                                                             *)
CreateNew_truncating ==
    /\ pc = "create"
    /\ log' = Append(log, Ev("create_new", CONVERSION_STRATEGIES[k], TRUE, 0))
    /\ fs' = [p \in DOMAIN fs \cup {new_path} |->
                IF p = new_path THEN <<>> ELSE fs[p]]
    /\ pc' = "write"
    /\ UNCHANGED result
    /\ UNCHANGED codec
    /\ UNCHANGED locals
    /\ UNCHANGED frame

CreateNew_falls_through ==
    /\ pc = "create"
    /\ IF new_path \in DOMAIN fs
       THEN /\ IF k < NStrategies
               THEN /\ k' = k + 1
                    /\ pc' = "encode"
                    /\ UNCHANGED result
               ELSE /\ Return(Err("ImageSizeExceedsTarget"))
                    /\ UNCHANGED k
            /\ log' = Append(log, Ev("create_new", CONVERSION_STRATEGIES[k], FALSE, 0))
            /\ UNCHANGED fs
       ELSE /\ fs' = fs @@ (new_path :> <<>>)
            /\ log' = Append(log, Ev("create_new", CONVERSION_STRATEGIES[k], TRUE, 0))
            /\ pc' = "write"
            /\ UNCHANGED <<result, k>>
    /\ UNCHANGED <<codec, original_size, image, converted_data, new_path>>
    /\ UNCHANGED frame

CreateNew ==
    /\ pc = "create"
    /\ log' = Append(log, Ev("create_new", CONVERSION_STRATEGIES[k], new_path \notin DOMAIN fs, 0))
    /\ IF new_path \in DOMAIN fs
       THEN /\ Return(Err("Io"))
            /\ UNCHANGED fs
       ELSE /\ fs' = fs @@ (new_path :> <<>>)
            /\ pc' = "write"
            /\ UNCHANGED result
    /\ UNCHANGED codec
    /\ UNCHANGED locals
    /\ UNCHANGED frame

(* Lines 101-107, write_all: writes every byte and the call returns        *)
(* Converted, or fails after writing a proper prefix (disk full, I/O       *)
(* error) and the call returns the error.                                  *)
WriteAll ==
    /\ pc = "write"
    /\ \/ /\ fs' = [fs EXCEPT ![new_path] = converted_data]
          /\ log' = Append(log, Ev("write_all", CONVERSION_STRATEGIES[k], TRUE, Len(converted_data)))
          /\ Return(Converted(original_size, Len(converted_data), new_path))
       \/ \E w \in 0..(Len(converted_data) - 1) :
            /\ fs' = [fs EXCEPT ![new_path] = SubSeq(converted_data, 1, w)]
            /\ log' = Append(log, Ev("write_all", CONVERSION_STRATEGIES[k], FALSE, w))
            /\ Return(Err("Io"))
    /\ UNCHANGED codec
    /\ UNCHANGED locals
    /\ UNCHANGED frame

\* The codec's answers that can still be asked for from image i on: those
\* about the bytes of a remaining input.  The others are forgotten, no
\* later call can ask for them again (no call changes an existing file).
Remembered(i) ==
    LET later == {fs[images[j]] :
                    j \in {j \in i..Len(images) : images[j] \in DOMAIN fs}}
    IN  [key \in {key \in DOMAIN codec : key[1] \in later} |-> codec[key]]

\* main, line 25: the for loop takes the next image and calls
\* re_convert_image, or is over and main goes on to line 48.
NextImage(i) ==
    /\ idx' = i
    /\ codec' = Remembered(i)
    /\ original_size' = 0
    /\ image' = <<>>
    /\ k' = 0
    /\ converted_data' = <<>>
    /\ new_path' = NoPath
    /\ result' = NoResult
    /\ log' = <<>>
    /\ fs_pre' = fs
    /\ pc' = IF i <= Len(images) THEN "open" ELSE "stdin"

\* main, lines 26-44: the line printed for an image: its path, the kind of
\* outcome and the new path.  The strategy that was accepted is kept with
\* it as history.
Line(p, r) ==
    [path |-> p, kind |-> r.kind, new_path |-> r.new_path,
     strategy |-> IF r.kind = "Converted" THEN CONVERSION_STRATEGIES[k] ELSE ""]

(* main, lines 25-45: one line printed per image, then the next image.     *)
Report_abort_on_error ==
    /\ pc = "report"
    /\ reports' = Append(reports, Line(image_path, result))
    /\ NextImage(IF result.kind = "Err" THEN Len(images) + 1 ELSE idx + 1)
    /\ UNCHANGED <<images, target_size, fs, stdin>>

Report ==
    /\ pc = "report"
    /\ reports' = Append(reports, Line(image_path, result))
    /\ NextImage(idx + 1)
    /\ UNCHANGED <<images, target_size, fs, stdin>>

(* The user types a byte, or closes standard input.  Input typed earlier   *)
(* waits in the terminal's buffer: nothing reads it before line 48, so it  *)
(* is taken to arrive while main waits there.                              *)
UserInput ==
    /\ pc = "stdin"
    /\ stdin = "none"
    /\ stdin' \in {"byte", "eof"}
    /\ UNCHANGED <<images, target_size, fs, codec, pc, idx, result, reports,
                   log, fs_pre>>
    /\ UNCHANGED locals

(* main, line 48: read_exact of one byte blocks until there is a byte or   *)
(* the end of standard input; unwrap panics on end of file.                *)
ReadStdin_without_waiting ==
    /\ pc = "stdin"
    /\ pc' = IF stdin = "eof" THEN "panicked" ELSE "exited"
    /\ UNCHANGED <<images, target_size, fs, codec, stdin, idx, result, reports,
                   log, fs_pre>>
    /\ UNCHANGED locals

ReadStdin ==
    /\ pc = "stdin"
    /\ stdin # "none"
    /\ pc' = IF stdin = "byte" THEN "exited" ELSE "panicked"
    /\ UNCHANGED <<images, target_size, fs, codec, stdin, idx, result, reports,
                   log, fs_pre>>
    /\ UNCHANGED locals

Next ==
    \/ OpenFile
    \/ SizeCheck
    \/ Decode
    \/ Encode
    \/ CheckLen
    \/ CreateNew
    \/ WriteAll
    \/ Report
    \/ UserInput
    \/ ReadStdin

Spec == Init /\ [][Next]_vars

----------------------------------------------------------------------------
(* Properties of re_convert_image and main.                                *)

\* The call on images[idx] has returned to main with its outcome.
Returned == pc = "report"

Events(e) == SelectSeq(log, LAMBDA x : x.ev = e)
Encodes == Events("encode")
AllEncodesOk == \A i \in 1..Len(Encodes) : Encodes[i].ok

\* The file of the current call as it was when the call began.
InputExisted == idx <= Len(images) /\ image_path \in DOMAIN fs_pre
InputSize == Len(fs_pre[image_path])

\* A strategy's bytes were accepted: the call went on to the write step.
Accepted == new_path # NoPath

\* The catalog order the specification states.
CatalogOrder ==
    <<"convert_to_png", "convert_to_jpeg_100", "convert_to_jpeg_90">>

\* C1: the strategies are invoked in catalog order, each at most once; every
\* strategy before the last one invoked encoded to a length >= target_size;
\* the accepted strategy is the last one invoked and its length is
\* < target_size; and when all encoders succeed and one of them gets under
\* the target, the call accepts one (the first such, by the above).
C1_FirstFitInCatalogOrder ==
    /\ Len(Encodes) <= Len(CatalogOrder)
    /\ \A i \in 1..Len(Encodes) : Encodes[i].s = CatalogOrder[i]
    /\ \A i \in 1..(Len(Encodes) - 1) :
         Encodes[i].ok /\ Encodes[i].n >= target_size
    /\ Accepted =>
         /\ Len(Encodes) >= 1
         /\ Encodes[Len(Encodes)].ok
         /\ Encodes[Len(Encodes)].n < target_size
         /\ Len(converted_data) = Encodes[Len(Encodes)].n
    /\ (Returned /\ result.kind = "Converted") => Accepted
    /\ (Returned /\ AllEncodesOk
          /\ \E i \in 1..Len(Encodes) : Encodes[i].n < target_size) => Accepted

C1_Witness ==
    /\ Returned
    /\ result.kind = "Converted"
    /\ Len(Encodes) = 2
    /\ Encodes[1].n >= target_size

\* C2: a Converted outcome has new_size < target_size and the file at
\* new_path holds exactly the accepted strategy's new_size bytes; a Skipped
\* outcome has original_size < target_size.
C2_OutcomeSizes ==
    Returned =>
      /\ result.kind = "Converted" =>
           /\ result.new_size < target_size
           /\ result.new_path \in DOMAIN fs
           /\ Len(fs[result.new_path]) = result.new_size
           /\ fs[result.new_path] = converted_data
           /\ result.new_size = Encodes[Len(Encodes)].n
      /\ result.kind = "Skipped" => result.original_size < target_size

C2_Witness ==
    /\ Returned
    /\ result.kind = "Converted"
    /\ result.new_size + 1 = target_size

\* C3: an input file smaller than target_size is Skipped with its actual
\* size, and the call leaves the filesystem as it found it.
C3_SmallIsSkipped ==
    (Returned /\ InputExisted /\ InputSize < target_size) =>
      /\ result = Skipped(InputSize)
      /\ fs = fs_pre
      /\ Events("decode") = <<>>
      /\ Encodes = <<>>

C3_Witness ==
    /\ Returned
    /\ InputExisted
    /\ InputSize = 1
    /\ target_size = 2
    /\ idx = 2

\* C4: when every strategy of the catalog encodes successfully but to a
\* length >= target_size, the call fails with ImageSizeExceedsTarget, and
\* it has created no file.
C4_ExhaustedIsError ==
    (/\ Returned
     /\ Len(Encodes) = Len(CatalogOrder)
     /\ \A i \in 1..Len(Encodes) : Encodes[i].ok /\ Encodes[i].n >= target_size) =>
      /\ result = Err("ImageSizeExceedsTarget")
      /\ fs = fs_pre
      /\ Events("create_new") = <<>>

C4_Witness ==
    /\ Returned
    /\ Len(Encodes) = Len(CatalogOrder)
    /\ \A i \in 1..Len(Encodes) : Encodes[i].ok /\ Encodes[i].n >= target_size
    /\ target_size = 2
    /\ result.err = "ImageSizeExceedsTarget"

\* C5: an encoder failure ends the call with that error: the failed encode
\* is the last strategy invoked (only successful encodes are followed by
\* another strategy), the outcome is the image error and no file is created.
C5_EncodeErrorIsFatal ==
    /\ \A i \in 1..(Len(Encodes) - 1) : Encodes[i].ok
    /\ ~AllEncodesOk =>
         /\ Returned
         /\ result = Err("Image")
         /\ fs = fs_pre
         /\ Events("create_new") = <<>>

\* The first encoder fails where a later strategy could have got under the
\* target (the target is above the smallest encoded length).
C5_Witness ==
    /\ Returned
    /\ Len(Encodes) = 1
    /\ ~Encodes[1].ok
    /\ target_size = 2

\* C6: when the output path derived for the accepted strategy already
\* exists, the call fails with an I/O error at the create step, tries no
\* further strategy and writes nothing: every file, the pre-existing one
\* included, keeps its content.
C6_CollisionIsError ==
    (Returned /\ Accepted /\ new_path \in DOMAIN fs_pre) =>
      /\ result = Err("Io")
      /\ fs = fs_pre
      /\ Events("write_all") = <<>>
      /\ log[Len(log)] = Ev("create_new", Encodes[Len(Encodes)].s, FALSE, 0)

C6_Witness ==
    /\ Returned
    /\ Accepted
    /\ new_path = Out1Jpg
    /\ new_path \in DOMAIN fs_pre
    /\ fs[new_path] = <<"o">>
    /\ Len(Encodes) = 3

\* C7: after a call that returns an error, of whatever kind, no file
\* created by the call is left on disk.
C7_NoFileLeftOnError ==
    (Returned /\ result.kind = "Err") => DOMAIN fs = DOMAIN fs_pre

\* C8: during and after a call every file that existed when the call began
\* keeps its content, and the call creates at most one file, at the
\* derived output path, only after a strategy's bytes of length
\* < target_size were accepted; the file holds a prefix of those bytes.
C8_OnlyTheOutputIsCreated ==
    /\ \A p \in DOMAIN fs_pre : p \in DOMAIN fs /\ fs[p] = fs_pre[p]
    /\ LET made == DOMAIN fs \ DOMAIN fs_pre
       IN  /\ Cardinality(made) <= 1
           /\ made # {} =>
                /\ Accepted
                /\ made = {new_path}
                /\ Encodes[Len(Encodes)].ok
                /\ Encodes[Len(Encodes)].n < target_size
                /\ Len(fs[new_path]) <= Len(converted_data)
                /\ fs[new_path] = SubSeq(converted_data, 1, Len(fs[new_path]))

C8_Witness ==
    /\ Returned
    /\ idx = 2
    /\ result.kind = "Converted"
    /\ DOMAIN fs \ DOMAIN fs_pre = {new_path}
    /\ image_path \in DOMAIN fs
    /\ Out1Png \in DOMAIN fs_pre

FinishedLoop == pc \in {"stdin", "exited", "panicked"}

\* C9: main reports the images one by one in command-line order, one
\* result (Converted, Skipped or Err) per path, each call opening its file
\* at most once; when the loop is over every image has its report, whatever
\* the outcomes of the earlier ones.
C9_OneReportPerImageInOrder ==
    /\ idx \in 1..(Len(images) + 1)
    /\ Len(reports) = idx - 1
    /\ \A i \in 1..Len(reports) :
         /\ reports[i].path = images[i]
         /\ reports[i].kind \in {"Converted", "Skipped", "Err"}
    /\ Len(Events("open")) <= 1
    /\ FinishedLoop <=> idx = Len(images) + 1
    /\ FinishedLoop => Len(reports) = Len(images)

C9_Witness ==
    /\ FinishedLoop
    /\ Len(images) = 2
    /\ reports[1].kind = "Err"
    /\ reports[2].kind = "Converted"

\* The stems of the input paths, written out.
ExpectedStem(p) == IF p = P3 THEN <<"c">> ELSE <<"a", ".", "b">>

\* C10: the new_path of a Converted outcome is in the input's directory,
\* named <stem>-reconv<ext>, with ext ".png" exactly when the first
\* strategy was accepted and ".jpg" otherwise; it is not the input path.
C10_OutputName ==
    (Returned /\ result.kind = "Converted") =>
      LET first == Len(Encodes) = 1
          ext == IF first THEN <<".", "p", "n", "g">> ELSE <<".", "j", "p", "g">>
      IN  /\ result.new_path.dir = image_path.dir
          /\ result.new_path.name =
               ExpectedStem(image_path) \o <<"-", "r", "e", "c", "o", "n", "v">> \o ext
          /\ first <=> Encodes[Len(Encodes)].s = "convert_to_png"
          /\ result.new_path # image_path
          /\ result.new_path = new_path

C10_Witness ==
    /\ Returned
    /\ result.kind = "Converted"
    /\ image_path = P1
    /\ Len(Encodes) = 3
    /\ result.new_path = Out1Jpg

\* C11 as stated: with target_size = 0 a non-empty input ends in an error
\* and an empty input ends in a non-error outcome.
C11_ZeroTargetEmptyFileSatisfied ==
    (Returned /\ target_size = 0 /\ InputExisted) =>
      /\ InputSize > 0 => result.kind = "Err"
      /\ InputSize = 0 => result.kind # "Err"

\* C11, amended: with target_size = 0 every call ends in an error, on an
\* empty input file too: 0 < 0 is false, so the file is never Skipped, and
\* no encoded length is below 0, so it is never Converted.
C11_ZeroTargetNeverSatisfied ==
    (Returned /\ target_size = 0) =>
      /\ result.kind = "Err"
      /\ fs = fs_pre
      /\ ~Accepted

C11_Witness ==
    /\ Returned
    /\ target_size = 0
    /\ InputExisted
    /\ InputSize = 0
    /\ result.kind = "Err"

\* What the catalog search ends with on image b under target t, given the
\* codec's answers c, from strategy i on.
RECURSIVE Search(_, _, _, _)
Search(c, b, t, i) ==
    IF i > Len(CatalogOrder) THEN [end |-> "exhausted", s |-> "", n |-> 0]
    ELSE IF <<b, CatalogOrder[i]>> \notin DOMAIN c
    THEN [end |-> "unknown", s |-> "", n |-> 0]
    ELSE LET r == c[<<b, CatalogOrder[i]>>]
         IN  IF ~r.ok THEN [end |-> "encode_error", s |-> CatalogOrder[i], n |-> 0]
             ELSE IF r.n < t THEN [end |-> "accept", s |-> CatalogOrder[i], n |-> r.n]
             ELSE Search(c, b, t, i + 1)

\* The outcome and the final filesystem of a call as a function of what the
\* call starts from: the filesystem f, the path p, the target t, the
\* codec's answers c, and the point w at which the environment fails
\* write_all (-1: it does not fail).
Run(f, p, t, c, w) ==
    IF p \notin DOMAIN f THEN [outcome |-> Err("Io"), fs |-> f]
    ELSE IF Len(f[p]) < t THEN [outcome |-> Skipped(Len(f[p])), fs |-> f]
    ELSE IF <<f[p], "decode">> \notin DOMAIN c
    THEN [outcome |-> NoResult, fs |-> f]
    ELSE IF ~c[<<f[p], "decode">>].ok THEN [outcome |-> Err("Image"), fs |-> f]
    ELSE LET e == Search(c, f[p], t, 1)
             np == new_path_of(p, ExtensionOf(e.s))
         IN  CASE e.end = "unknown" -> [outcome |-> NoResult, fs |-> f]
               [] e.end = "encode_error" -> [outcome |-> Err("Image"), fs |-> f]
               [] e.end = "exhausted" ->
                    [outcome |-> Err("ImageSizeExceedsTarget"), fs |-> f]
               [] e.end = "accept" ->
                    IF np \in DOMAIN f THEN [outcome |-> Err("Io"), fs |-> f]
                    ELSE IF w >= 0 /\ w < e.n
                    THEN [outcome |-> Err("Io"),
                          fs |-> f @@ (np :> Bytes(MarkOf(e.s), w))]
                    ELSE [outcome |-> Converted(Len(f[p]), e.n, np),
                          fs |-> f @@ (np :> Bytes(MarkOf(e.s), e.n))]

\* Where write_all failed in the current call, -1 if it did not.
WriteFault ==
    LET W == Events("write_all")
    IN  IF W # <<>> /\ ~W[1].ok THEN W[1].n ELSE -1

\* C12: the outcome of a call and the filesystem it leaves are a function
\* of the filesystem it started from, the input path, target_size and the
\* (pure) codec answers, the environment's write failure being equal: two
\* runs that agree on these end alike.
C12_Deterministic ==
    Returned =>
      LET run == Run(fs_pre, image_path, target_size, codec, WriteFault)
      IN  /\ result = run.outcome
          /\ fs = run.fs

\* A second call on a file of the same bytes, whose codec answers are
\* those of the first call.
C12_Witness ==
    /\ Returned
    /\ idx = 2
    /\ images[2] = P3
    /\ images[1] \in DOMAIN fs
    /\ images[2] \in DOMAIN fs
    /\ fs[images[1]] = fs[images[2]]
    /\ reports[1].kind = "Converted"
    /\ result.kind = "Converted"

\* Step i of the current call comes after a size check that found the
\* file not smaller than the target.
AfterSizeCheck(i) ==
    \E j \in 1..(i - 1) : log[j].ev = "size_check" /\ ~log[j].ok

AfterDecode(i) ==
    \E j \in 1..(i - 1) : log[j].ev = "decode" /\ log[j].ok

\* C13: decoding comes only after the size check found size >= target_size;
\* a strategy is invoked only after that and a successful decode; a file
\* below the target is neither decoded nor encoded; a decode failure
\* returns the decode error with no strategy invoked and no file created.
C13_StepOrder ==
    /\ Len(Events("size_check")) <= 1
    /\ Len(Events("decode")) <= 1
    /\ \A i \in 1..Len(log) :
         /\ log[i].ev = "decode" => AfterSizeCheck(i)
         /\ log[i].ev = "encode" => AfterSizeCheck(i) /\ AfterDecode(i)
         /\ log[i].ev = "size_check" => log[i].ok = (InputSize < target_size)
    /\ (InputExisted /\ InputSize < target_size) =>
         Events("decode") = <<>> /\ Encodes = <<>>
    /\ (Events("decode") # <<>> /\ ~Events("decode")[1].ok) =>
         /\ Returned
         /\ result = Err("Image")
         /\ Encodes = <<>>
         /\ fs = fs_pre

\* A non-empty file of size >= target_size that does not decode.
C13_Witness ==
    /\ Returned
    /\ InputExisted
    /\ InputSize > 0
    /\ Events("decode") # <<>>
    /\ ~Events("decode")[1].ok
    /\ target_size > 0

\* C14: both comparisons are strict.  A file of exactly target_size bytes
\* is not Skipped: it is decoded.  An encoded result of exactly target_size
\* bytes is not accepted: the next strategy is invoked, or, after the last
\* strategy, the call returns ImageSizeExceedsTarget.
C14_StrictAtBoundary ==
    /\ (Returned /\ InputExisted /\ InputSize = target_size) =>
         /\ result.kind # "Skipped"
         /\ Len(Events("decode")) = 1
    /\ \A i \in 1..Len(Encodes) :
         (Encodes[i].ok /\ Encodes[i].n = target_size) =>
           /\ ~(Accepted /\ i = Len(Encodes))
           /\ Returned =>
                \/ i < Len(Encodes)
                \/ i = Len(CatalogOrder) /\ result = Err("ImageSizeExceedsTarget")

\* A file of exactly target_size bytes whose first encoding has exactly
\* target_size bytes and whose second one is accepted.
C14_Witness ==
    /\ Returned
    /\ InputExisted
    /\ InputSize = target_size
    /\ Len(Encodes) = 2
    /\ Encodes[1].n = target_size
    /\ result.kind = "Converted"

\* C15: a Converted outcome reports the input's size as original_size and
\* a new_size strictly below it.
C15_ConvertedIsSmaller ==
    (Returned /\ result.kind = "Converted") =>
      /\ result.original_size = InputSize
      /\ result.new_size < result.original_size
      /\ Len(fs[result.new_path]) < Len(fs[image_path])

C15_Witness ==
    /\ Returned
    /\ result.kind = "Converted"
    /\ result.original_size = target_size
    /\ result.new_size + 1 = result.original_size
    /\ image_path = P3

\* C16: once a call has returned Converted for a path, a later call of the
\* batch on the same path (same target, files untouched) accepts the same
\* strategy, derives the same new_path and fails at create_new with the
\* I/O error: it creates nothing and the first output stays as it is.  So
\* does a later call on another input of the same directory and stem whose
\* accepted strategy has the same extension.
C16_NotIdempotent ==
    \A i \in 1..Len(reports) :
      reports[i].kind = "Converted" =>
        /\ reports[i].new_path \in DOMAIN fs_pre
        /\ (Returned /\ image_path = reports[i].path) =>
             /\ result = Err("Io")
             /\ Accepted
             /\ Encodes[Len(Encodes)].s = reports[i].strategy
             /\ new_path = reports[i].new_path
             /\ log[Len(log)] = Ev("create_new", reports[i].strategy, FALSE, 0)
             /\ fs = fs_pre
        /\ (/\ Returned
            /\ Accepted
            /\ image_path.dir = reports[i].path.dir
            /\ ExpectedStem(image_path) = ExpectedStem(reports[i].path)
            /\ ExtensionOf(Encodes[Len(Encodes)].s) = ExtensionOf(reports[i].strategy)) =>
             /\ result = Err("Io")
             /\ fs = fs_pre

\* The second call on the same path after a Converted first call.
C16_Witness ==
    /\ Returned
    /\ idx = 2
    /\ images[2] = images[1]
    /\ reports[1].kind = "Converted"
    /\ reports[1].strategy = "convert_to_jpeg_90"
    /\ result = Err("Io")

Terminated == pc \in {"exited", "panicked"}

\* C17: main reads standard input only when every image has its report;
\* the process ends only by that read; it ends normally exactly when the
\* read got a byte; and once a byte is there the read can return, and the
\* only step the process takes is to exit normally.
C17_ExitAfterStdinRead ==
    /\ [](pc = "stdin" => Len(reports) = Len(images))
    /\ [](Terminated => /\ Len(reports) = Len(images)
                        /\ stdin # "none"
                        /\ (pc = "exited") = (stdin = "byte"))
    /\ []((pc = "stdin" /\ stdin = "byte") => ENABLED ReadStdin)
    /\ [][(Terminated' /\ ~Terminated) => (pc = "stdin" /\ stdin # "none")]_vars
    /\ [][(pc = "stdin" /\ stdin = "byte") => pc' = "exited"]_vars

\* Main waits at line 48 with a byte to read, after a batch of two images.
C17_Witness ==
    /\ pc = "stdin"
    /\ stdin = "byte"
    /\ Len(reports) = 2
    /\ reports[1].kind = "Err"

====
